---- MODULE Spec2Model ----
(***************************************************************************)
(* Model of the school/students update service (src/index.js).             *)
(*                                                                         *)
(* The collection "schools" holds school documents, each with an embedded  *)
(* ordered array of student objects.  PUT /schools/:schoolId/students      *)
(* dispatches one un-awaited updateOne command per element of the request  *)
(* body and answers at once; the store executes the dispatched commands    *)
(* later, one document-atomic command at a time, in any order.  GET        *)
(* /schools/:schoolId/students awaits one findOne and sends the students   *)
(* array of the document it found.                                         *)
(*                                                                         *)
(* Spec      the service after a clean startup                             *)
(* SpecFail  ... with a store that may reject update commands              *)
(* SpecRaw   ... receiving bodies with malformed elements                  *)
(* SpecTwo   ... over a collection that holds a second school              *)
(* SpecBoot  the service from app.listen on: connect and populateDB        *)
(* SpecImpl  the four implementations of the article on one request        *)
(***************************************************************************)
EXTENDS Naturals, Sequences, FiniteSets, TLC

VARIABLES
    schools,   \* the "schools" collection: sequence of documents, natural order
    puts,      \* PUT requests handled so far: [schoolId, body, res]
    done,      \* <<r, i>>: the updateOne dispatched for puts[r].body[i] has executed
    hist,      \* history: per PUT, the collection when it was handled, and
               \* whether every earlier command had executed by then
    get,       \* the GET request of the reading client
    failed,    \* <<r, i>>: the updateOne dispatched for puts[r].body[i] was
               \* rejected by the store (its promise rejected, unhandled)
    boot,      \* startup: whether mongoose.connect has resolved, and the
               \* populateDB commands dispatched and not yet executed
    out        \* the collections the four implementations of the article
               \* leave for one request (<<>> while none was compared)

vars == <<schools, puts, done, hist, get, failed, boot, out>>

----------------------------------------------------------------------------
(* Bounds *)

\* number of students populateDB pushes (1000 in the source, scaled down)
NumStudents == 2
\* number of PUT requests handled in one behaviour
MaxPuts == 2
\* largest request body (number of student objects)
MaxBatch == 2

----------------------------------------------------------------------------
(* Seed data: populateDB *)

\* the template literals `student${i}` etc.: ToString is the decimal numeral
SeedStudent(i) ==
    [studentId |-> "student" \o ToString(i),
     name      |-> "Student " \o ToString(i),
     age       |-> 20,
     email     |-> "student" \o ToString(i) \o "@example.com"]

\* students array built by the for-loop: student0 .. student(N-1), in order
SeedStudents == [j \in 1..NumStudents |-> SeedStudent(j - 1)]

SeedSchool ==
    [name     |-> "School 1",
     schoolId |-> "1",
     address  |-> "123 Main St",
     city     |-> "New York",
     students |-> SeedStudents]

\* the collection after drop() followed by insertOne(seed)
PopulateDB == <<SeedSchool>>

----------------------------------------------------------------------------
(* Request inputs *)

\* schoolId path parameters tried: the seeded school and one that is absent
SchoolIds == {"1", "2"}

\* studentIds sent in request bodies: every seeded id and one that is absent
BodyIds == {"student" \o ToString(i) : i \in 0..(NumStudents - 1)} \cup {"studentX"}

\* a student object carrying all four fields, as in the example payload
FullStudent(k) ==
    [studentId |-> k, name |-> "Updated " \o k, age |-> 21,
     email |-> k \o "@example.com"]

\* a student object that omits age and email
PartialStudent(k) == [studentId |-> k, name |-> "Renamed " \o k]

BodyStudents == {FullStudent(k) : k \in BodyIds} \cup {PartialStudent(k) : k \in BodyIds}

\* req.body: JSON arrays of student objects, of length 0..MaxBatch
Bodies == UNION {[1..n -> BodyStudents] : n \in 0..MaxBatch}

----------------------------------------------------------------------------
(* Store commands *)

\* indices of the documents matching {schoolId: sid}
MatchSchool(coll, sid) == {d \in 1..Len(coll) : coll[d].schoolId = sid}

\* BSON null, as a value no studentId string of the model equals
Null == "<null>"

\* student.studentId: the field, or undefined when the object has none; the
\* driver serializes undefined as null
KeyOf(student) ==
    IF "studentId" \in DOMAIN student THEN student.studentId ELSE Null

\* indices of the array elements of doc whose studentId equals k (null
\* matches the elements that have no studentId)
MatchElems(doc, k) ==
    {p \in 1..Len(doc.students) : KeyOf(doc.students[p]) = k}

\* variant of MatchFilter: the filter {"students.studentId": k} of the
\* article's first listing, which leaves the schoolId out
MatchFilterAnySchool(coll, sid, k) ==
    {d \in 1..Len(coll) : MatchElems(coll[d], k) # {}}

\* indices of the documents matching
\* {schoolId: sid, "students.studentId": k}
MatchFilter(coll, sid, k) ==
    {d \in MatchSchool(coll, sid) : MatchElems(coll[d], k) # {}}

Min(S) == CHOOSE m \in S : \A n \in S : m <= n

\* variant of SetPositional: $concatArrays of the other elements and the
\* student object, so the updated element moves to the end of the array
SetFilterConcat(doc, k, student) ==
    LET p == Min(MatchElems(doc, k))
        rest == SelectSeq(doc.students, LAMBDA e : e.studentId # k)
    IN  [doc EXCEPT !.students = Append(rest, student)]

\* variant of SetPositional: $mergeObjects of the stored element and the
\* student object, so fields the request omits are retained
SetMergeObjects(doc, k, student) ==
    LET p == Min(MatchElems(doc, k))
        old == doc.students[p]
        merged == [f \in DOMAIN old \cup DOMAIN student |->
                      IF f \in DOMAIN student THEN student[f] ELSE old[f]]
    IN  [doc EXCEPT !.students = [@ EXCEPT ![p] = merged]]

\* variant of SetPositional: $set "students.$[]", the all-positional
\* operator, so every array element becomes the student object
SetAllPositional(doc, k, student) ==
    [doc EXCEPT !.students = [p \in DOMAIN @ |-> student]]

\* $set "students.$": the first matching array element becomes the whole
\* student object of the request
SetPositional(doc, k, student) ==
    LET p == Min(MatchElems(doc, k))
    IN  [doc EXCEPT !.students = [@ EXCEPT ![p] = student]]

\* variant of UpdateOne: when the school has no element with the studentId,
\* the student object is pushed onto its array
UpdateOneOrPush(coll, sid, student) ==
    LET m == MatchFilter(coll, sid, student.studentId)
        s == MatchSchool(coll, sid)
    IN  IF m # {}
        THEN [coll EXCEPT ![Min(m)] = SetPositional(@, student.studentId, student)]
        ELSE IF s # {}
             THEN [coll EXCEPT ![Min(s)].students = Append(@, student)]
             ELSE coll

\* updateOne(filter, {$set: {"students.$": student}}): the first matching
\* document is updated; no match, no change (no upsert)
UpdateOne(coll, sid, student) ==
    LET m == MatchFilter(coll, sid, KeyOf(student))
    IN  IF m = {} THEN coll
        ELSE [coll EXCEPT ![Min(m)] = SetPositional(@, KeyOf(student), student)]

\* findOne({schoolId: sid}): the first matching document, or null (<<>>)
FindOne(coll, sid) ==
    LET m == MatchSchool(coll, sid)
    IN  IF m = {} THEN <<>> ELSE <<coll[Min(m)]>>

----------------------------------------------------------------------------
(* Commands in flight *)

\* every updateOne dispatched so far
Dispatched ==
    {c \in (1..MaxPuts) \X (1..MaxBatch) :
         /\ c[1] <= Len(puts)
         /\ c[2] <= Len(puts[c[1]].body)
         /\ puts[c[1]].res = "Students updated"}

Pending == Dispatched \ (done \cup failed)

\* the commands the handler of request r dispatched
CmdsOf(r) == {c \in Dispatched : c[1] = r}

----------------------------------------------------------------------------
(* Actions *)

GetIdle == [pc |-> "idle", schoolId |-> "", school |-> <<>>, res |-> <<>>]

\* startup finished: connected, populateDB's commands executed
Booted == [connected |-> TRUE, pending |-> {}]

Init ==
    /\ schools = PopulateDB
    /\ puts = <<>>
    /\ done = {}
    /\ hist = <<>>
    /\ get = GetIdle
    /\ failed = {}
    /\ boot = Booted
    /\ out = <<>>

\* app.put("/schools/:schoolId/students"): the for-loop dispatches one
\* updateOne per element of req.body without awaiting it, then the handler
\* sends "Students updated"
Put(sid, body) ==
    /\ boot.connected
    /\ Len(puts) < MaxPuts
    /\ puts' = Append(puts, [schoolId |-> sid, body |-> body, res |-> "Students updated"])
    /\ hist' = Append(hist, [before |-> schools, quiet |-> (Pending = {})])
    /\ UNCHANGED <<schools, done, get, failed, boot, out>>

\* variant of ExecUpdate: the command writes back the document as it was
\* when the request was handled, with its one element changed
ExecUpdateStale(c) ==
    /\ c \in Pending
    /\ schools' = UpdateOne(hist[c[1]].before, puts[c[1]].schoolId, puts[c[1]].body[c[2]])
    /\ done' = done \cup {c}
    /\ UNCHANGED <<puts, hist, get, failed, boot, out>>

\* the store executes one dispatched updateOne
ExecUpdate(c) ==
    /\ c \in Pending
    /\ schools' = UpdateOne(schools, puts[c[1]].schoolId, puts[c[1]].body[c[2]])
    /\ done' = done \cup {c}
    /\ UNCHANGED <<puts, hist, get, failed, boot, out>>

\* app.get("/schools/:schoolId/students"): the handler dispatches findOne
\* and awaits it
GetStart(sid) ==
    /\ boot.connected
    /\ get.pc \in {"idle", "sent", "threw"}
    /\ get' = [GetIdle EXCEPT !.pc = "finding", !.schoolId = sid]
    /\ UNCHANGED <<schools, puts, done, hist, failed, boot, out>>

\* the store executes the findOne
ExecFind ==
    /\ get.pc = "finding"
    /\ get' = [get EXCEPT !.pc = "found",
                          !.school = FindOne(schools, get.schoolId)]
    /\ UNCHANGED <<schools, puts, done, hist, failed, boot, out>>

\* res.send(school.students); school is null when nothing matched, and the
\* property access throws before anything is sent
GetSend ==
    /\ get.pc = "found"
    /\ IF get.school # <<>>
       THEN get' = [get EXCEPT !.pc = "sent", !.res = get.school[1].students]
       ELSE get' = [get EXCEPT !.pc = "threw"]
    /\ UNCHANGED <<schools, puts, done, hist, failed, boot, out>>

Next ==
    \/ \E sid \in SchoolIds, body \in Bodies : Put(sid, body)
    \/ \E c \in (1..MaxPuts) \X (1..MaxBatch) : ExecUpdate(c)
    \/ \E sid \in SchoolIds : GetStart(sid)
    \/ ExecFind
    \/ GetSend

Spec == Init /\ [][Next]_vars

----------------------------------------------------------------------------
(* Store errors *)

\* the store rejects one dispatched updateOne (timeout, connection loss):
\* the command changes nothing and its promise rejects; the handler holds
\* no reference to the promise, so nothing observes the rejection
FailUpdate(c) ==
    /\ c \in Pending
    /\ failed' = failed \cup {c}
    /\ UNCHANGED <<schools, puts, done, hist, get, boot, out>>

NextFail ==
    \/ \E sid \in SchoolIds, body \in Bodies : Put(sid, body)
    \/ \E c \in (1..MaxPuts) \X (1..MaxBatch) : ExecUpdate(c)
    \/ \E c \in (1..MaxPuts) \X (1..MaxBatch) : FailUpdate(c)

\* the service with a store that may reject commands
SpecFail == Init /\ [][NextFail]_vars

----------------------------------------------------------------------------
(* A collection with a second school *)

\* a second school document of the seeded shape, whose students carry the
\* same studentIds as those of school "1"
OtherSchool ==
    [SeedSchool EXCEPT !.name = "School 2", !.schoolId = "2",
                       !.address = "456 Side St"]

InitTwo ==
    /\ schools = <<SeedSchool, OtherSchool>>
    /\ puts = <<>>
    /\ done = {}
    /\ hist = <<>>
    /\ get = GetIdle
    /\ failed = {}
    /\ boot = Booted
    /\ out = <<>>

\* the service over a collection holding two schools
SpecTwo == InitTwo /\ [][Next]_vars

----------------------------------------------------------------------------
(* The four implementations of the article *)

\* updateOne({"students.studentId": id}, {$set: {"students.$": student}}) of
\* the first two listings: the filter names no schoolId
ArticleUpdateOne(coll, student) ==
    LET m == {d \in 1..Len(coll) : MatchElems(coll[d], KeyOf(student)) # {}}
    IN  IF m = {} THEN coll
        ELSE [coll EXCEPT ![Min(m)] = SetPositional(@, KeyOf(student), student)]

\* 1. for-loop: one awaited updateOne per student, in body order
RECURSIVE ForLoop(_, _, _)
ForLoop(coll, body, n) ==
    IF n = 0 THEN coll
    ELSE ArticleUpdateOne(ForLoop(coll, body, n - 1), body[n])

NaiveLoop(coll, sid, body) == ForLoop(coll, body, Len(body))

\* 2. bulkWrite: students.map builds one updateOne operation per student;
\* the (ordered) bulk executes them one after another
BulkUpdateArray(body) ==
    [i \in DOMAIN body |-> [filter |-> KeyOf(body[i]), set |-> body[i]]]

RECURSIVE ExecBulk(_, _, _)
ExecBulk(coll, ops, n) ==
    IF n = 0 THEN coll
    ELSE LET prev == ExecBulk(coll, ops, n - 1)
             m == {d \in 1..Len(prev) : MatchElems(prev[d], ops[n].filter) # {}}
         IN  IF m = {} THEN prev
             ELSE [prev EXCEPT ![Min(m)] = SetPositional(@, ops[n].filter, ops[n].set)]

BulkWrite(coll, sid, body) ==
    ExecBulk(coll, BulkUpdateArray(body), Len(body))

\* $mergeObjects: [stored, update]: fields of update win, the others stay;
\* a missing update (<<>>) leaves the stored object
MergeObjects(stored, update) ==
    IF update = <<>> THEN stored
    ELSE [f \in DOMAIN stored \cup DOMAIN update[1] |->
             IF f \in DOMAIN update[1] THEN update[1][f] ELSE stored[f]]

\* 3. pipeline $map over $students: each student is merged with
\* $arrayElemAt 0 of the $filter of the body on its studentId
MapMergeObjects(coll, sid, body) ==
    LET m == MatchSchool(coll, sid)
        First(student) ==
            LET hits == {i \in DOMAIN body : KeyOf(body[i]) = KeyOf(student)}
            IN  IF hits = {} THEN <<>> ELSE <<body[Min(hits)]>>
    IN  IF m = {} THEN coll
        ELSE [coll EXCEPT ![Min(m)].students =
                 [p \in DOMAIN @ |-> MergeObjects(@[p], First(@[p]))]]

\* 4. pipeline $concatArrays of the $filter of $students whose studentId is
\* not $in the body's ids, and the body
FilterConcat(coll, sid, body) ==
    LET m == MatchSchool(coll, sid)
        ids == {KeyOf(body[i]) : i \in DOMAIN body}
    IN  IF m = {} THEN coll
        ELSE [coll EXCEPT ![Min(m)].students =
                 SelectSeq(@, LAMBDA e : KeyOf(e) \notin ids) \o body]

\* students arrays the collection can hold after earlier updates: at each
\* position the seeded student or one of the objects a request can carry
StoredStudents ==
    {s \in [1..NumStudents ->
               {SeedStudent(i) : i \in 0..(NumStudents - 1)} \cup BodyStudents] :
         \A p \in 1..NumStudents : s[p].studentId = SeedStudents[p].studentId}

InitImpl ==
    /\ schools \in {<<[SeedSchool EXCEPT !.students = s]>> : s \in StoredStudents}
    /\ puts = <<>>
    /\ done = {}
    /\ hist = <<>>
    /\ get = GetIdle
    /\ failed = {}
    /\ boot = Booted
    /\ out = <<>>

\* one request given to each of the four implementations, all starting
\* from the stored collection
Compare(sid, body) ==
    /\ out = <<>>
    /\ out' = [schoolId |-> sid,
               body     |-> body,
               loop     |-> NaiveLoop(schools, sid, body),
               bulk     |-> BulkWrite(schools, sid, body),
               merge    |-> MapMergeObjects(schools, sid, body),
               concat   |-> FilterConcat(schools, sid, body)]
    /\ UNCHANGED <<schools, puts, done, hist, get, failed, boot>>

NextImpl == \E sid \in SchoolIds, body \in Bodies : Compare(sid, body)

SpecImpl == InitImpl /\ [][NextImpl]_vars

----------------------------------------------------------------------------
(* Startup *)

\* number of PUT requests handled in a behaviour that starts the server
MaxBootPuts == 1

\* app.listen has returned: the server accepts requests, while
\* mongoose.connect has not resolved and populateDB has not run; the
\* collection is empty (first start) or holds the record of an earlier run
InitBoot ==
    /\ schools \in {<<>>, PopulateDB}
    /\ puts = <<>>
    /\ done = {}
    /\ hist = <<>>
    /\ get = GetIdle
    /\ failed = {}
    /\ boot = [connected |-> FALSE, pending |-> {}]
    /\ out = <<>>

\* mongoose.connect resolves and its then-callback calls populateDB, which
\* dispatches drop() and insertOne(seed) without awaiting either
Connect ==
    /\ ~boot.connected
    /\ boot' = [connected |-> TRUE, pending |-> {"drop", "insertOne"}]
    /\ UNCHANGED <<schools, puts, done, hist, get, failed, out>>

\* the store executes populateDB's drop of the collection
ExecDrop ==
    /\ "drop" \in boot.pending
    /\ schools' = <<>>
    /\ boot' = [boot EXCEPT !.pending = @ \ {"drop"}]
    /\ UNCHANGED <<puts, done, hist, get, failed, out>>

\* the store executes populateDB's insertOne of the seed record
ExecInsert ==
    /\ "insertOne" \in boot.pending
    /\ schools' = Append(schools, SeedSchool)
    /\ boot' = [boot EXCEPT !.pending = @ \ {"insertOne"}]
    /\ UNCHANGED <<puts, done, hist, get, failed, out>>

\* the PUT handler before the connection is open: mongoose.connection.db is
\* undefined, so the first iteration of the for-loop throws a TypeError and
\* nothing is dispatched; with an empty body the loop does not run and the
\* handler answers "Students updated"
PutUnconnected(sid, body) ==
    /\ ~boot.connected
    /\ Len(puts) < MaxBootPuts
    /\ puts' = Append(puts, [schoolId |-> sid, body |-> body,
                             res |-> IF body = <<>> THEN "Students updated"
                                     ELSE "TypeError"])
    /\ hist' = Append(hist, [before |-> schools, quiet |-> (Pending = {})])
    /\ UNCHANGED <<schools, done, get, failed, boot, out>>

\* the GET handler before the connection is open: mongoose.connection.db is
\* undefined and the async handler throws before sending anything
GetUnconnected(sid) ==
    /\ ~boot.connected
    /\ get.pc \in {"idle", "sent", "threw"}
    /\ get' = [GetIdle EXCEPT !.pc = "threw", !.schoolId = sid]
    /\ UNCHANGED <<schools, puts, done, hist, failed, boot, out>>

\* the PUT handler once the connection is open, for the requests of a
\* behaviour that starts the server
PutBoot(sid, body) ==
    /\ Len(puts) < MaxBootPuts
    /\ Put(sid, body)

NextBoot ==
    \/ Connect
    \/ ExecDrop
    \/ ExecInsert
    \/ \E sid \in SchoolIds, body \in Bodies : PutUnconnected(sid, body)
    \/ \E sid \in SchoolIds, body \in Bodies : PutBoot(sid, body)
    \/ \E c \in (1..MaxPuts) \X (1..MaxBatch) : ExecUpdate(c)
    \/ \E sid \in SchoolIds : GetUnconnected(sid)
    \/ \E sid \in SchoolIds : GetStart(sid)
    \/ ExecFind
    \/ GetSend

\* the service from the moment it listens
SpecBoot == InitBoot /\ [][NextBoot]_vars

----------------------------------------------------------------------------
(* Malformed request bodies *)

\* a body element without studentId, and one whose studentId is empty
NoIdStudent == [name |-> "No id"]

EmptyIdStudent == [studentId |-> "", name |-> "Empty id"]

\* req.body as express.json() delivers it: arrays of any objects; nothing
\* validates the elements
RawBodies ==
    UNION {[1..n -> BodyStudents \cup {NoIdStudent, EmptyIdStudent}] : n \in 0..MaxBatch}

NextRaw ==
    \/ \E sid \in SchoolIds, body \in RawBodies : Put(sid, body)
    \/ \E c \in (1..MaxPuts) \X (1..MaxBatch) : ExecUpdate(c)

\* the service receiving well-formed and malformed bodies
SpecRaw == Init /\ [][NextRaw]_vars

----------------------------------------------------------------------------
(* Vocabulary of the properties *)

\* the students array a read of school sid returns from collection coll
\* (<<>> when no such school is stored)
StudentsOf(coll, sid) ==
    IF FindOne(coll, sid) = <<>> THEN <<>> ELSE FindOne(coll, sid)[1].students

\* the sequence of studentIds of a students array, position by position
KeySeq(students) == [p \in DOMAIN students |-> students[p].studentId]

\* the studentIds a request body names
BodyKeys(body) == {body[i].studentId : i \in DOMAIN body}

\* no two elements of the body share a studentId
NoDuplicateKeys(body) ==
    \A i, j \in DOMAIN body : body[i].studentId = body[j].studentId => i = j

\* index of the last element of body whose studentId is k
LastIndex(body, k) ==
    CHOOSE i \in DOMAIN body :
        /\ body[i].studentId = k
        /\ \A j \in DOMAIN body : body[j].studentId = k => j <= i

\* the students array with a whole batch applied as one unit: every child a
\* body element names carries that element (the last one on duplicates),
\* every other child is as it was
Plan(students, body) ==
    [p \in DOMAIN students |->
        IF students[p].studentId \in BodyKeys(body)
        THEN body[LastIndex(body, students[p].studentId)]
        ELSE students[p]]

\* the requests addressed to school sid
PutsTo(sid) == {r \in 1..Len(puts) : puts[r].schoolId = sid}

\* every command request r dispatched has executed
Completed(r) == CmdsOf(r) \subseteq done

\* the command executed by the current step, as a set (empty on other steps)
Executed == done' \ done

\* orders in which n whole batches can be applied one after another
Orders(n) == {f \in [1..n -> 1..n] : \A i, j \in 1..n : f[i] = f[j] => i = j}

\* school sid's students after applying the first n requests of order f as
\* whole batches to the seeded array
RECURSIVE Serial(_, _, _)
Serial(sid, f, n) ==
    IF n = 0 THEN StudentsOf(PopulateDB, sid)
    ELSE LET prev == Serial(sid, f, n - 1)
         IN  IF puts[f[n]].schoolId = sid THEN Plan(prev, puts[f[n]].body) ELSE prev

----------------------------------------------------------------------------
(* Properties *)

\* C1: atomicity of a batch, for a single writer whose body names each
\* student once: a read of the school taken at any moment returns either the
\* students as they were before the batch or the students with every
\* matching element of the batch applied, never a mixture.
C1_ReadNeverPartial ==
    ( /\ get.pc = "found"
      /\ get.school # <<>>
      /\ Len(puts) = 1
      /\ puts[1].schoolId = get.schoolId
      /\ NoDuplicateKeys(puts[1].body) )
    => LET before == StudentsOf(hist[1].before, get.schoolId)
       IN  get.school[1].students \in {before, Plan(before, puts[1].body)}

\* C3: per-parent linearization, for batches that each name a student at
\* most once: once every command has executed, the students of each school
\* equal the result of applying the whole batches one after another in some
\* total order.
C3_FinalIsSomeSerialOrder ==
    ( /\ Pending = {}
      /\ \A r \in 1..Len(puts) : NoDuplicateKeys(puts[r].body) )
    => \A sid \in SchoolIds :
           \E f \in Orders(Len(puts)) :
               StudentsOf(schools, sid) = Serial(sid, f, Len(puts))

\* C4: success is reported only after the batch is committed: whenever the
\* response "Students updated" of a request has been sent, every element of
\* its body that matches a student of the addressed school is stored, i.e.
\* its update command has executed.
C4_SuccessOnlyAfterCommit ==
    \A r \in 1..Len(puts) :
        puts[r].res = "Students updated" =>
            \A c \in CmdsOf(r) :
                MatchFilter(schools, puts[r].schoolId, puts[r].body[c[2]].studentId) # {}
                    => c \in done

\* C7: last-wins for duplicate keys: once a batch has completed, every
\* student it names (and no other request names) holds the last body element
\* with that studentId.
C7_LastDuplicateWins ==
    \A r \in 1..Len(puts) :
        Completed(r) =>
            \A p \in DOMAIN StudentsOf(schools, puts[r].schoolId) :
                LET child == StudentsOf(schools, puts[r].schoolId)[p]
                    k == child.studentId
                IN  ( /\ k \in BodyKeys(puts[r].body)
                      /\ \A q \in PutsTo(puts[r].schoolId) \ {r} :
                             k \notin BodyKeys(puts[q].body) )
                    => child = puts[r].body[LastIndex(puts[r].body, k)]

\* C9: idempotence: when the same batch is applied a second time after the
\* first application (and everything before it) has completed, and nothing
\* else writes, the completed second application leaves the collection as
\* the first left it.
C9_SecondApplyChangesNothing ==
    LET n == Len(puts)
    IN  ( /\ n >= 2
          /\ puts[n] = puts[n - 1]
          /\ hist[n].quiet
          /\ Pending = {} )
        => schools = hist[n].before

\* C2: no lost update for disjoint batches: when the requests addressed to
\* a school name pairwise disjoint sets of studentIds, then once all of them
\* have completed, under every interleaving of their commands, every student
\* named by a request holds a body element of that request with its
\* studentId (the element, when the body names it once), and every student
\* named by no request is as seeded.
C2_DisjointBatchesBothApplied ==
    \A sid \in SchoolIds :
        ( /\ \A r \in PutsTo(sid) : Completed(r)
          /\ \A q, r \in PutsTo(sid) :
                 q # r => BodyKeys(puts[q].body) \cap BodyKeys(puts[r].body) = {} )
        => \A p \in DOMAIN StudentsOf(schools, sid) :
               LET child == StudentsOf(schools, sid)[p]
                   seeded == StudentsOf(PopulateDB, sid)[p]
                   writers == {r \in PutsTo(sid) :
                                   seeded.studentId \in BodyKeys(puts[r].body)}
               IN  IF writers = {}
                   THEN child = seeded
                   ELSE \A r \in writers :
                            \E i \in DOMAIN puts[r].body :
                                /\ puts[r].body[i].studentId = seeded.studentId
                                /\ child = puts[r].body[i]

\* two requests on school "1" naming different seeded students, the second
\* handled while commands of the first were pending, both completed
C2_Witness ==
    /\ Len(puts) = 2
    /\ puts[1].schoolId = "1" /\ puts[2].schoolId = "1"
    /\ BodyKeys(puts[1].body) = {"student0"}
    /\ BodyKeys(puts[2].body) = {"student1"}
    /\ ~hist[2].quiet
    /\ Pending = {}
    /\ \A p \in DOMAIN SeedStudents : StudentsOf(schools, "1")[p] # SeedStudents[p]

\* C5: no-op on miss: executing the update of a body element whose
\* studentId matches no student of the addressed school adds no student,
\* changes no student and does not change the answer of any request; the
\* collection is what it is without that element.
C5_MissIsNoOp ==
    [][ \A c \in Executed :
            LET sid == puts[c[1]].schoolId
                student == puts[c[1]].body[c[2]]
                keys == {StudentsOf(schools, sid)[p].studentId :
                             p \in DOMAIN StudentsOf(schools, sid)}
            IN  student.studentId \notin keys
                    => schools' = schools /\ puts' = puts ]_vars

\* a completed batch on school "1" that names a seeded student and an
\* absent one; the seeded student has been updated
C5_Witness ==
    \E r \in 1..Len(puts) :
        /\ puts[r].schoolId = "1"
        /\ Completed(r)
        /\ BodyKeys(puts[r].body) = {"student0", "studentX"}
        /\ StudentsOf(schools, "1")[1] # SeedStudents[1]

\* C6: order preservation: in every reachable state, whatever the
\* interleaving of the update commands, each school's students array has the
\* length and, position by position, the studentIds it was seeded with.
C6_OrderPreserved ==
    /\ Len(schools) = Len(PopulateDB)
    /\ \A d \in DOMAIN schools :
           KeySeq(schools[d].students) = KeySeq(PopulateDB[d].students)

\* two overlapping requests on school "1" were in flight together and have
\* completed; the last student has been updated
C6_Witness ==
    /\ Len(puts) = 2
    /\ puts[1].schoolId = "1" /\ puts[2].schoolId = "1"
    /\ BodyKeys(puts[1].body) \cap BodyKeys(puts[2].body) # {}
    /\ ~hist[2].quiet
    /\ Pending = {}
    /\ StudentsOf(schools, "1")[1] # SeedStudents[1]
    /\ StudentsOf(schools, "1")[NumStudents] = SeedStudents[NumStudents]

\* C8: full replacement with immutable key: executing the update of a body
\* element that matches a student leaves, at that student's position,
\* exactly the body element: its fields and values and no others, under the
\* studentId the student had.
C8_FullReplacement ==
    [][ \A c \in Executed :
            LET sid == puts[c[1]].schoolId
                student == puts[c[1]].body[c[2]]
                old == StudentsOf(schools, sid)
                new == StudentsOf(schools', sid)
            IN  \A p \in DOMAIN old :
                    old[p].studentId = student.studentId
                        => /\ p \in DOMAIN new
                           /\ new[p] = student
                           /\ DOMAIN new[p] = DOMAIN student
                           /\ new[p].studentId = old[p].studentId ]_vars

\* a student object without age and email has replaced a seeded student
C8_Witness ==
    \E p \in DOMAIN StudentsOf(schools, "1") :
        /\ StudentsOf(schools, "1")[p] = PartialStudent(SeedStudents[p].studentId)
        /\ "age" \in DOMAIN SeedStudents[p]
        /\ "age" \notin DOMAIN StudentsOf(schools, "1")[p]

\* C10: child-key uniqueness: in every reachable state the studentIds of
\* each school's students array are pairwise distinct, as they were seeded.
C10_KeysUnique ==
    \A d \in DOMAIN schools :
        \A p, q \in DOMAIN schools[d].students :
            schools[d].students[p].studentId = schools[d].students[q].studentId => p = q

\* a completed batch has updated two different students of school "1"
\* while another request was in flight
C10_Witness ==
    /\ Len(puts) = 2
    /\ ~hist[2].quiet
    /\ \E r \in 1..Len(puts) :
           /\ puts[r].schoolId = "1"
           /\ Completed(r)
           /\ Cardinality(BodyKeys(puts[r].body) \cap
                  {SeedStudents[p].studentId : p \in DOMAIN SeedStudents}) = 2
    /\ \A p \in DOMAIN SeedStudents : StudentsOf(schools, "1")[p] # SeedStudents[p]

\* the studentIds of a students array
KeysIn(students) == {students[p].studentId : p \in DOMAIN students}

\* what a result report of request r would carry: the number of distinct
\* studentIds of its body that match a student of the addressed school, and
\* the studentIds of its body that match none
AppliedCount(r) ==
    Cardinality(BodyKeys(puts[r].body) \cap
                KeysIn(StudentsOf(hist[r].before, puts[r].schoolId)))

SkippedKeys(r) ==
    BodyKeys(puts[r].body) \ KeysIn(StudentsOf(hist[r].before, puts[r].schoolId))

\* C11: version counter: every school record carries a version, and once
\* the requests handled so far have completed, the version of a school has
\* advanced from its seeded value by exactly the number of successful
\* requests addressed to it.
C11_VersionCountsApplies ==
    ( Len(puts) >= 1 /\ Pending = {} )
    => \A d \in DOMAIN schools :
           /\ "version" \in DOMAIN schools[d]
           /\ "version" \in DOMAIN hist[1].before[d]
           /\ schools[d].version = hist[1].before[d].version
                  + Cardinality({r \in PutsTo(schools[d].schoolId) :
                                     puts[r].res = "Students updated"})

\* C12: NotFound: a request addressed to a schoolId that no stored record
\* has is not answered with success.
C12_AbsentParentNotSuccess ==
    \A r \in 1..Len(puts) :
        MatchSchool(hist[r].before, puts[r].schoolId) = {}
            => puts[r].res # "Students updated"

\* C14: optimistic concurrency: a write of a request commits only if the
\* addressed school is as it was when the request read it; when another
\* request has changed a student in between (version mismatch), the write
\* does not commit (it would be retried from a fresh read).
C14_WriteConditionalOnRead ==
    [][ \A c \in Executed :
            LET sid == puts[c[1]].schoolId
                read == StudentsOf(hist[c[1]].before, sid)
                now == StudentsOf(schools, sid)
            IN  ( \E p \in DOMAIN now :
                      /\ now[p] # read[p]
                      /\ now[p].studentId \notin BodyKeys(puts[c[1]].body) )
                => schools' = schools ]_vars

\* C15: result report: the answer to a request carries appliedCount and
\* skippedKeys, so two requests that differ in either are answered
\* differently.
C15_AnswerCarriesReport ==
    \A q, r \in 1..Len(puts) :
        ( AppliedCount(q) # AppliedCount(r) \/ SkippedKeys(q) # SkippedKeys(r) )
            => puts[q].res # puts[r].res

\* C13: a failed batch leaves nothing behind: when a command of the only
\* request handled was rejected by the store and no command is pending any
\* more, the collection is exactly what it was before the request.
C13_FailedBatchLeavesNothing ==
    ( /\ Len(puts) = 1
      /\ CmdsOf(1) \cap failed # {}
      /\ Pending = {} )
    => schools = hist[1].before

\* some element of the body has no studentId or an empty one
Malformed(body) == \E i \in DOMAIN body : KeyOf(body[i]) \in {Null, ""}

\* C16: InvalidInput: a request whose body is malformed is rejected before
\* any store command is issued: it dispatches no updateOne and is not
\* answered with success.
C16_MalformedNeverReachesStore ==
    \A r \in 1..Len(puts) :
        Malformed(puts[r].body)
            => CmdsOf(r) = {} /\ puts[r].res # "Students updated"

\* the fields of a school document other than its students array
Scalars(doc) == [f \in DOMAIN doc \ {"students"} |-> doc[f]]

\* C17: frame of an Apply: no step of the update or read endpoints creates
\* or deletes a school record or changes a scalar field of one, and a step
\* changes the students of a record only by executing an update addressed
\* to that record's schoolId, also when another record holds a student with
\* the same studentId.
C17_Frame ==
    [][ /\ Len(schools') = Len(schools)
        /\ \A d \in DOMAIN schools :
               /\ Scalars(schools'[d]) = Scalars(schools[d])
               /\ schools'[d].students # schools[d].students
                      => \E c \in Executed :
                             puts[c[1]].schoolId = schools[d].schoolId ]_vars

\* a completed request addressed to school "1" has replaced its student0,
\* while school "2", which holds the same studentIds, is as stored
C17_Witness ==
    /\ Len(schools) = 2
    /\ Len(puts) = 1
    /\ puts[1].schoolId = "1"
    /\ "student0" \in BodyKeys(puts[1].body)
    /\ Completed(1)
    /\ schools[1].students[1] # SeedStudents[1]
    /\ schools[2] = OtherSchool
    /\ KeysIn(schools[2].students) = KeysIn(schools[1].students)

\* C18: interchangeable implementations: for every stored school and every
\* body, the for-loop, bulkWrite, $map/$mergeObjects and
\* $filter/$concatArrays implementations leave the same students array.
C18_SameStudents ==
    out # <<>> =>
        /\ StudentsOf(out.bulk, out.schoolId) = StudentsOf(out.loop, out.schoolId)
        /\ StudentsOf(out.merge, out.schoolId) = StudentsOf(out.loop, out.schoolId)
        /\ StudentsOf(out.concat, out.schoolId) = StudentsOf(out.loop, out.schoolId)

\* C19: seeding outcome: once the store has executed both commands of
\* populateDB, in whatever order, the collection holds exactly one record,
\* with schoolId "1" and the seeded number of students with the pairwise
\* distinct studentIds student0, student1, ...
C19_SeededOnce ==
    ( boot.connected /\ boot.pending = {} )
    => /\ Len(schools) = 1
       /\ schools[1].schoolId = "1"
       /\ KeySeq(schools[1].students) = KeySeq(SeedStudents)

\* C20: startup ordering: every update or read request is processed only
\* after the connection is established and populateDB's commands have
\* executed.
C20_RequestsAfterSeeding ==
    ( puts # <<>> \/ get.pc # "idle" ) => boot = Booted

====
